---- MODULE Spec2Model ----
\* Model of type-handle (src/src/lib.rs): the value wrapper Handle<T>, the
\* pointer wrapper RCHandle<T> and the reinterpretation primitive
\* transmute_ref / transmute_ref_mut.
\*
\* Five specifications share the module:
\*   SpecH   value ownership of Handle<T>: from_instance, replace,
\*           into_instance, instance_mut, scope exit
\*   SpecRC  ownership through RCHandle<T>: from_ptr, from_unshared_ptr,
\*           from_ref, clone, From<&RCHandle>, into_ptr, as_mut, scope exit
\*   SpecA   aliasing: RCHandle<T> and &mut Handle<T> made from a record, and
\*           the writes through them and through the record's owner
\*   SpecV   the &Option<RCHandle<T>> view of a raw-pointer slot
\*   SpecL   the size check of transmute_ref(_mut) over the layouts of T
EXTENDS Integers, FiniteSets, Sequences, TLC

VARIABLES
    \* ---- SpecH
    zeroValid,  \* whether the all-zero bit pattern is a valid T (a property of T)
    handles,    \* Handle<T> values, by id
    slots,      \* the caller's own T variables, by id
    drops,      \* per T value (ghost id), how often T's teardown ran on it
    lastH,      \* the last Handle operation and what it returned
    \* ---- SpecRC / SpecL
    ty,         \* layout of T: [size, align]
    heap,       \* the externally owned T objects, by address
    pslot,      \* raw-pointer slots (*mut T fields of foreign structures)
    rch,        \* RCHandle<T> values, by id
    hviews,     \* &Handle<T> / &mut Handle<T> views, by id
    oviews,     \* &Option<RCHandle<T>> views, by id
    assertFailed, \* a debug_assert_eq! of transmute_ref(_mut) has fired
    lastRC      \* the last pointer operation and what it returned

varsH  == <<zeroValid, handles, slots, drops, lastH>>
varsRC == <<ty, heap, pslot, rch, hviews, oviews, assertFailed, lastRC>>
vars   == <<zeroValid, handles, slots, drops, lastH,
            ty, heap, pslot, rch, hviews, oviews, assertFailed, lastRC>>

\* ------------------------------------------------------------------ bounds
NumVals    == 2   \* T values the caller starts with
MaxHandles == 2   \* Handle<T> values ever made
MaxNum     == 1   \* Thing.number ranges over 0..MaxNum
NumAddr    == 2   \* live T objects on the heap
NumPSlots  == 2   \* raw-pointer slots
MaxRC      == 2   \* RCHandle<T> values ever made
MaxViews   == 1   \* views of each kind ever made
MaxSize    == 8  \* largest size_of::<T>() in SpecL

Numbers   == 0..MaxNum
ValIds    == 1..NumVals
HandleIds == 1..MaxHandles
SlotIds   == 1..NumVals

\* ------------------------------------------------------------ Option<_>
None    == [some |-> FALSE]
Some(x) == [some |-> TRUE, v |-> x]

\* ================================================================ Handle<T>
\* A T value: its observable field and a ghost identity that teardown is
\* counted by.  Identity 0 is the all-zero placeholder of into_instance.
Thing(i, n) == [id |-> i, number |-> n]

\* mem::zeroed::<T>(): the all-zero bit pattern as a T.
mem_zeroed == Thing(0, 0)

\* What evaluating mem::zeroed::<T>() can do.  For a T whose all-zero pattern
\* is valid it returns the value.  For any other T (a reference, Box, String,
\* NonNull ...) the call is undefined behaviour: current toolchains panic in
\* it (assert_zero_valid), older ones return the invalid value.
ZeroedOutcomes(zv) == IF zv THEN {"value"} ELSE {"value", "panic"}

NoHandle == [st |-> "none", val |-> mem_zeroed, shell |-> 0, consumed |-> FALSE]

\* Handle(t, PhantomData)
Handle_from_instance(t) ==
    [st |-> "live", val |-> t, shell |-> 0, consumed |-> FALSE]

\* Mutant of mem_swap: the second place is copied over the first, not exchanged.
mem_swap_copy(a, b) == <<b, b>>

\* mem::swap(a, b): the two places exchange their contents.
mem_swap(a, b) == <<b, a>>

\* mem::replace(dest, src): dest holds src, the old content is returned.
mem_replace(dest, src) == [dest |-> src, ret |-> dest]

\* mem::forget(self): the value's drop glue never runs.
mem_forget(self) == [self EXCEPT !.st = "forgotten"]

\* Drop glue of Handle<T> (no Drop impl: it drops field 0, the embedded T).
Handle_drop(self) == [self EXCEPT !.st = "dropped", !.shell = @ + 1]

\* T's teardown runs on the value with ghost identity i.
Teardown(d, i) == [d EXCEPT ![i] = @ + 1]

\* Handle::replace(mut self, t: &mut T) -> Self
Handle_replace(self, t) ==
    LET sw == mem_swap(self.val, t)
    IN  [self |-> [self EXCEPT !.val = sw[1]], t |-> sw[2]]

\* Handle::into_instance(mut self) -> T.  The argument mem::zeroed() is
\* evaluated first; if it panics, unwinding drops `self` with the value still
\* in it.  Otherwise the value is exchanged for the placeholder and the shell
\* is forgotten.
Handle_into_instance(self, outcome) ==
    LET c == [self EXCEPT !.consumed = TRUE]
    IN  IF outcome = "panic"
        THEN [ret |-> None, self |-> Handle_drop(c), torn |-> {c.val.id}]
        ELSE LET r == mem_replace(c.val, mem_zeroed)
             IN  [ret  |-> Some(r.ret),
                  self |-> mem_forget([c EXCEPT !.val = r.dest]),
                  torn |-> {}]

\* Handle::instance_mut / DerefMut: a write of field `number` through the wrapper.
Handle_write(self, n) == [self EXCEPT !.val.number = n]

\* A variable of the caller whose value was moved out or torn down: what it
\* held is no longer accessible.
NoValue(st) == [st |-> st, val |-> mem_zeroed]

InitH ==
    /\ zeroValid \in BOOLEAN
    /\ handles = [h \in HandleIds |-> NoHandle]
    /\ slots = [s \in SlotIds |-> [st |-> "live", val |-> Thing(s, 0)]]
    /\ drops = [i \in 0..NumVals |-> 0]
    /\ lastH = [op |-> "init"]

\* The next unused Handle id.
FreshHandle(h) ==
    /\ handles[h].st = "none"
    /\ \A k \in HandleIds : k < h => handles[k].st # "none"

\* let h = Handle::from_instance(t);   (t is moved out of the caller's variable)
FromInstance(h, s) ==
    /\ FreshHandle(h)
    /\ slots[s].st = "live"
    /\ handles' = [handles EXCEPT ![h] = Handle_from_instance(slots[s].val)]
    /\ slots' = [slots EXCEPT ![s] = NoValue("moved")]
    /\ lastH' = [op |-> "from_instance", h |-> h, s |-> s]
    /\ UNCHANGED <<varsRC, zeroValid, drops>>

\* h = h.replace(&mut t);
Replace(h, s) ==
    /\ handles[h].st = "live"
    /\ slots[s].st = "live"
    /\ LET r == Handle_replace(handles[h], slots[s].val)
       IN  /\ handles' = [handles EXCEPT ![h] = r.self]
           /\ slots' = [slots EXCEPT ![s].val = r.t]
    /\ lastH' = [op |-> "replace", h |-> h, s |-> s]
    /\ UNCHANGED <<varsRC, zeroValid, drops>>

\* The first variable of the caller that holds no value.
FreeSlot(s) ==
    /\ slots[s].st # "live"
    /\ \A k \in SlotIds : k < s => slots[k].st = "live"

\* let t = h.into_instance();   (t is a variable of the caller holding no value)
IntoInstance(h, s) ==
    /\ handles[h].st = "live"
    /\ FreeSlot(s)
    /\ \E o \in ZeroedOutcomes(zeroValid) :
         LET r == Handle_into_instance(handles[h], o)
             tornId == CHOOSE i \in r.torn : TRUE
         IN  /\ handles' = [handles EXCEPT ![h] = r.self]
             /\ slots' = IF r.ret.some
                         THEN [slots EXCEPT ![s] = [st |-> "live", val |-> r.ret.v]]
                         ELSE slots
             /\ drops' = IF r.torn = {} THEN drops ELSE Teardown(drops, tornId)
             /\ lastH' = [op |-> "into_instance", h |-> h, s |-> s,
                          roundtrip |-> (lastH.op = "from_instance" /\ lastH.h = h)]
    /\ UNCHANGED <<varsRC, zeroValid>>

\* h.number = n;
WriteHandle(h, n) ==
    /\ handles[h].st = "live"
    /\ handles' = [handles EXCEPT ![h] = Handle_write(handles[h], n)]
    /\ lastH' = [op |-> "write", h |-> h, n |-> n]
    /\ UNCHANGED <<varsRC, zeroValid, slots, drops>>

\* The wrapper goes out of scope.
DropHandle(h) ==
    /\ handles[h].st = "live"
    /\ handles' = [handles EXCEPT ![h] = Handle_drop(handles[h])]
    /\ drops' = Teardown(drops, handles[h].val.id)
    /\ lastH' = [op |-> "drop_handle", h |-> h]
    /\ UNCHANGED <<varsRC, zeroValid, slots>>

\* A T variable of the caller goes out of scope.
DropSlot(s) ==
    /\ slots[s].st = "live"
    /\ slots' = [slots EXCEPT ![s] = NoValue("dropped")]
    /\ drops' = Teardown(drops, slots[s].val.id)
    /\ lastH' = [op |-> "drop_slot", s |-> s]
    /\ UNCHANGED <<varsRC, zeroValid, handles>>

NextH ==
    \/ \E h \in HandleIds, s \in SlotIds : FromInstance(h, s)
    \/ \E h \in HandleIds, s \in SlotIds : Replace(h, s)
    \/ \E h \in HandleIds, s \in SlotIds : IntoInstance(h, s)
    \/ \E h \in HandleIds, n \in Numbers : WriteHandle(h, n)
    \/ \E h \in HandleIds : DropHandle(h)
    \/ \E s \in SlotIds : DropSlot(s)

\* ============================================================== layouts
Layout(s, a, n) == [size |-> s, align |-> a, niche |-> n]

RoundUp(n, a) == ((n + a - 1) \div a) * a

MaxOf(a, b) == IF a >= b THEN a ELSE b

\* End offset of the fields laid out one after the other, each at its alignment.
RECURSIVE FieldsEnd(_, _)
FieldsEnd(fields, off) ==
    IF fields = <<>> THEN off
    ELSE FieldsEnd(Tail(fields), RoundUp(off, Head(fields).align) + Head(fields).size)

RECURSIVE FieldsAlign(_)
FieldsAlign(fields) ==
    IF fields = <<>> THEN 1
    ELSE MaxOf(Head(fields).align, FieldsAlign(Tail(fields)))

\* Layout of a struct with these fields.
StructLayout(fields) ==
    Layout(RoundUp(FieldsEnd(fields, 0), FieldsAlign(fields)),
           FieldsAlign(fields), FALSE)

\* size_of::<*mut T>() for a sized T.
PtrSize == 8

\* Mutant of PhantomLayout: a marker field that occupies a byte.
MarkerByteLayout == Layout(1, 1, FALSE)

\* PhantomData<*const ()>: zero-sized, alignment 1.
PhantomLayout == Layout(0, 1, FALSE)

\* struct Handle<T>(T, PhantomData<*const ()>)
HandleLayout(t) == StructLayout(<<t, PhantomLayout>>)

\* *mut T: every bit pattern is a value, so there is no niche.
RawPtrLayout == Layout(PtrSize, PtrSize, FALSE)

\* #[repr(transparent)] struct RCHandle<T>(ptr::NonNull<T>): a pointer that is
\* never null, so the null bit pattern is a niche.
RCHandleLayout == Layout(PtrSize, PtrSize, TRUE)

\* Option<X>: None lives in X's niche when X has one, in a tag otherwise.
OptionLayout(x) ==
    IF x.niche THEN Layout(x.size, x.align, FALSE)
    ELSE Layout(x.align + RoundUp(x.size, x.align), x.align, FALSE)

\* struct Thing { number: i32 }
ThingLayout == Layout(4, 4, FALSE)

Aligns  == {1, 2, 4, 8}
Layouts == {l \in [size : 0..MaxSize, align : Aligns, niche : {FALSE}] :
              l.size % l.align = 0}

\* transmute_ref: the reference keeps its address; the debug_assert_eq! holds
\* iff the two sizes are equal.
transmute_ref(from, FromT, ToT) ==
    [ref |-> from, ok |-> (FromT.size = ToT.size)]

\* ============================================================= RCHandle<T>
Addr   == 1..NumAddr      \* addresses of the live T objects
Ptrs   == 0..NumAddr      \* raw pointers: 0 is null
PSlots == 1..NumPSlots
RCIds  == 1..MaxRC
ViewIds == 1..MaxViews

\* Mutant of NonNull_new: the null check is missing.
NonNull_new_unchecked(ptr) == Some(ptr)

\* ptr::NonNull::new(ptr)
NonNull_new(ptr) == IF ptr = 0 THEN None ELSE Some(ptr)

\* The tuple constructor RCHandle(ptr).
RCHandle(ptr) == [ptr |-> ptr]

\* Option::map(Self): the constructor applied under Some.
Option_map_Self(o) == IF o.some THEN Some(RCHandle(o.v)) ELSE None

\* RCHandle::from_ptr: no access to the pointee.
RCHandle_from_ptr(ptr, hp) ==
    [ret |-> Option_map_Self(NonNull_new(ptr)), heap |-> hp]

\* Mutant of RCHandle_from_unshared_ptr: sharing increments the reference count.
RCHandle_from_unshared_ptr_retain(ptr, hp) ==
    [ret  |-> Option_map_Self(NonNull_new(ptr)),
     heap |-> IF ptr = 0 THEN hp ELSE [hp EXCEPT ![ptr].refs = @ + 1]]

\* RCHandle::from_unshared_ptr: `let _ = ptr.as_ref()` forms a reference to
\* the pointee and discards it; nothing is written.
RCHandle_from_unshared_ptr(ptr, hp) ==
    [ret |-> Option_map_Self(NonNull_new(ptr)), heap |-> hp]

\* Option::unwrap_unchecked: on None (undefined behaviour) the build yields the
\* niche bit pattern reinterpreted as the payload.
unwrap_unchecked(o) == IF o.some THEN o.v ELSE RCHandle(0)

\* RCHandle::from_ref(t: &mut T): t is the address of a live T.
RCHandle_from_ref(t, hp) ==
    [ret |-> unwrap_unchecked(RCHandle_from_ptr(t, hp).ret), heap |-> hp]

\* RCHandle::as_ptr
RCHandle_as_ptr(self) == self.ptr

\* RCHandle::as_ref / Deref, read of field `number`.
RCHandle_as_ref(self, hp) == hp[self.ptr].number

\* Mutant of RCHandle_as_mut: the write goes to a copy of the pointee.
RCHandle_as_mut_copy(self, hp, n) == hp

\* RCHandle::as_mut / DerefMut, write of field `number`.
RCHandle_as_mut(self, hp, n) == [hp EXCEPT ![self.ptr].number = n]

\* impl Clone for RCHandle: the pointer is copied, the pointee only referenced.
RCHandle_clone(self, hp) == [ret |-> RCHandle(self.ptr), heap |-> hp]

\* impl From<&RCHandle<T>> for RCHandle<T>: rch.clone().into()
RCHandle_from(self, hp) == RCHandle_clone(self, hp)

\* Mutant of RCHandle_into_ptr: the pointee is released on the way out.
RCHandle_into_ptr_release(self, hp) ==
    [ret |-> self.ptr, heap |-> [hp EXCEPT ![self.ptr].released = @ + 1]]

\* RCHandle::into_ptr: the pointer is returned, the wrapper forgotten.
RCHandle_into_ptr(self, hp) == [ret |-> self.ptr, heap |-> hp]

\* Scope exit of an RCHandle: the type has no Drop impl and NonNull<T> has no
\* drop glue, so nothing happens to the pointee.
RCHandle_drop(self, hp) == hp

\* transmute_ref_mut: as transmute_ref, for a mutable reference.
transmute_ref_mut(from, FromT, ToT) ==
    [ref |-> from, ok |-> (FromT.size = ToT.size)]

\* Handle::from_ref(t: &T) -> &Self
Handle_from_ref(t, T) == transmute_ref(t, T, HandleLayout(T))

\* Handle::from_ref_mut(t: &mut T) -> &mut Self
Handle_from_ref_mut(t, T) == transmute_ref_mut(t, T, HandleLayout(T))

\* Handle::from_ptr / Handle::from_ptr_mut: `tp as _`
Handle_from_ptr(tp) == tp

\* Handle::instance through a view: &self.0, read of field `number`.
HandleView_read(view, hp) == hp[view.at].number

\* Handle::instance_mut through a view: &mut self.0, write of field `number`.
HandleView_write(view, hp, n) == [hp EXCEPT ![view.at].number = n]

\* RCHandle::from_unshared_ptr_ref(t: &*mut T) -> &Option<Self>
RCHandle_from_unshared_ptr_ref(t) ==
    transmute_ref(t, RawPtrLayout, OptionLayout(RCHandleLayout))

\* The bits of an Option<RCHandle<T>>: None is the null niche of NonNull.
Option_encode(o) == IF o.some THEN o.v.ptr ELSE 0

\* Mutant of Option_decode: the wrapper has no null niche, every cell reads Some.
Option_decode_tagged(bits) == Some(RCHandle(bits))

\* The Option<RCHandle<T>> that a pointer-sized memory cell holds.
Option_decode(bits) ==
    CHOOSE o \in {None} \cup {Some(RCHandle(p)) : p \in Addr} :
        Option_encode(o) = bits

\* Reading the &Option<RCHandle<T>> view.
OptionView_read(view, pm) == Option_decode(pm[view.at])

NoRC   == [st |-> "none", ptr |-> 0, origin |-> 0]
NoView == [st |-> "none", at |-> 0, mut |-> FALSE, origin |-> 0]

Obj(n) == [number |-> n, refs |-> 1, released |-> 0]

InitPtr ==
    /\ heap = [a \in Addr |-> Obj(0)]
    /\ pslot = [s \in PSlots |-> 0]
    /\ rch = [w \in RCIds |-> NoRC]
    /\ hviews = [k \in ViewIds |-> NoView]
    /\ oviews = [k \in ViewIds |-> NoView]
    /\ assertFailed = FALSE
    /\ lastRC = [op |-> "init"]

\* The next unused RCHandle id.
FreshRC(w) ==
    /\ rch[w].st = "none"
    /\ \A k \in RCIds : k < w => rch[k].st # "none"

NextRCId == CHOOSE w \in RCIds : FreshRC(w)

\* An acquisition that returns a wrapper needs an unused id to bind it to.
CanBind(o) == o.some => \E w \in RCIds : FreshRC(w)

\* `let w = ...`: the returned wrapper, if any, under the next unused id.
Bind(o, origin) ==
    IF o.some
    THEN [rch EXCEPT ![NextRCId] =
            [st |-> "live", ptr |-> o.v.ptr, origin |-> origin]]
    ELSE rch

Bound(o) == IF o.some THEN Some(NextRCId) ELSE None

\* let w = RCHandle::from_ptr(p);
FromPtr(p) ==
    LET r == RCHandle_from_ptr(p, heap)
    IN  /\ CanBind(r.ret)
        /\ heap' = r.heap
        /\ rch' = Bind(r.ret, p)
        /\ lastRC' = [op |-> "from_ptr", arg |-> p, ret |-> Bound(r.ret)]
        /\ UNCHANGED <<varsH, ty, pslot, hviews, oviews, assertFailed>>

\* let w = RCHandle::from_unshared_ptr(p);
FromUnsharedPtr(p) ==
    LET r == RCHandle_from_unshared_ptr(p, heap)
    IN  /\ CanBind(r.ret)
        /\ heap' = r.heap
        /\ rch' = Bind(r.ret, p)
        /\ lastRC' = [op |-> "from_unshared_ptr", arg |-> p, ret |-> Bound(r.ret)]
        /\ UNCHANGED <<varsH, ty, pslot, hviews, oviews, assertFailed>>

\* let w = RCHandle::from_ref(&mut *a);
FromRef(a) ==
    LET r == RCHandle_from_ref(a, heap)
    IN  /\ CanBind(Some(r.ret))
        /\ heap' = r.heap
        /\ rch' = Bind(Some(r.ret), a)
        /\ lastRC' = [op |-> "from_ref", arg |-> a, ret |-> Bound(Some(r.ret))]
        /\ UNCHANGED <<varsH, ty, pslot, hviews, oviews, assertFailed>>

\* let c = w.clone();
Clone(w) ==
    /\ rch[w].st = "live"
    /\ LET r == RCHandle_clone(rch[w], heap)
       IN  /\ CanBind(Some(r.ret))
           /\ heap' = r.heap
           /\ rch' = Bind(Some(r.ret), rch[w].origin)
           /\ lastRC' = [op |-> "clone", w |-> w, ret |-> NextRCId]
    /\ UNCHANGED <<varsH, ty, pslot, hviews, oviews, assertFailed>>

\* let c = RCHandle::from(&w);
FromRCHandle(w) ==
    /\ rch[w].st = "live"
    /\ LET r == RCHandle_from(rch[w], heap)
       IN  /\ CanBind(Some(r.ret))
           /\ heap' = r.heap
           /\ rch' = Bind(Some(r.ret), rch[w].origin)
           /\ lastRC' = [op |-> "from", w |-> w, ret |-> NextRCId]
    /\ UNCHANGED <<varsH, ty, pslot, hviews, oviews, assertFailed>>

\* let p = w.into_ptr();
IntoPtr(w) ==
    /\ rch[w].st = "live"
    /\ LET r == RCHandle_into_ptr(rch[w], heap)
       IN  /\ heap' = r.heap
           /\ lastRC' = [op |-> "into_ptr", w |-> w, ret |-> r.ret]
    /\ rch' = [rch EXCEPT ![w].st = "consumed"]
    /\ UNCHANGED <<varsH, ty, pslot, hviews, oviews, assertFailed>>

\* The RCHandle goes out of scope.
DropRC(w) ==
    /\ rch[w].st = "live"
    /\ heap' = RCHandle_drop(rch[w], heap)
    /\ rch' = [rch EXCEPT ![w].st = "dropped"]
    /\ lastRC' = [op |-> "drop", w |-> w]
    /\ UNCHANGED <<varsH, ty, pslot, hviews, oviews, assertFailed>>

\* w.number = n;
WriteRC(w, n) ==
    /\ rch[w].st = "live"
    /\ heap' = RCHandle_as_mut(rch[w], heap, n)
    /\ lastRC' = [op |-> "rc_write", w |-> w, n |-> n]
    /\ UNCHANGED <<varsH, ty, pslot, rch, hviews, oviews, assertFailed>>

\* The owner of the record writes it directly: thing.number = n;
OwnerWrite(a, n) ==
    /\ heap' = [heap EXCEPT ![a].number = n]
    /\ lastRC' = [op |-> "owner_write", a |-> a, n |-> n]
    /\ UNCHANGED <<varsH, ty, pslot, rch, hviews, oviews, assertFailed>>

FreshView(views, k) ==
    /\ views[k].st = "none"
    /\ \A j \in ViewIds : j < k => views[j].st # "none"

NextViewId(views) == CHOOSE k \in ViewIds : FreshView(views, k)

\* `let v = ...`: the view a reinterpretation returned, unless its assertion fired.
BindView(views, r, m, origin) ==
    IF r.ok
    THEN [views EXCEPT ![NextViewId(views)] =
            [st |-> "live", at |-> r.ref, mut |-> m, origin |-> origin]]
    ELSE views

BoundView(views, r) == IF r.ok THEN Some(NextViewId(views)) ELSE None

\* let v = Handle::from_ref(&*a);
HandleFromRef(a) ==
    LET r == Handle_from_ref(a, ty)
    IN  /\ \E k \in ViewIds : FreshView(hviews, k)
        /\ hviews' = BindView(hviews, r, FALSE, a)
        /\ lastRC' = [op |-> "handle_from_ref", arg |-> a, ret |-> BoundView(hviews, r)]
        /\ assertFailed' = (assertFailed \/ ~r.ok)
        /\ UNCHANGED <<varsH, ty, heap, pslot, rch, oviews>>

\* let v = Handle::from_ref_mut(&mut *a);
HandleFromRefMut(a) ==
    LET r == Handle_from_ref_mut(a, ty)
    IN  /\ \E k \in ViewIds : FreshView(hviews, k)
        /\ hviews' = BindView(hviews, r, TRUE, a)
        /\ lastRC' = [op |-> "handle_from_ref_mut", arg |-> a,
                      ret |-> BoundView(hviews, r)]
        /\ assertFailed' = (assertFailed \/ ~r.ok)
        /\ UNCHANGED <<varsH, ty, heap, pslot, rch, oviews>>

\* Handle::from_ptr(p) and Handle::from_ptr_mut(p)
HandleFromPtr(p, m) ==
    /\ lastRC' = [op |-> IF m THEN "handle_from_ptr_mut" ELSE "handle_from_ptr",
                  arg |-> p, ret |-> Handle_from_ptr(p)]
    /\ UNCHANGED <<varsH, ty, heap, pslot, rch, hviews, oviews, assertFailed>>

\* view.number = n;   through a &mut Handle<T>
WriteView(k, n) ==
    /\ hviews[k].st = "live"
    /\ hviews[k].mut
    /\ heap' = HandleView_write(hviews[k], heap, n)
    /\ lastRC' = [op |-> "view_write", k |-> k, n |-> n]
    /\ UNCHANGED <<varsH, ty, pslot, rch, hviews, oviews, assertFailed>>

\* let o = RCHandle::from_unshared_ptr_ref(&slot);
FromUnsharedPtrRef(s) ==
    LET r == RCHandle_from_unshared_ptr_ref(s)
    IN  /\ \E k \in ViewIds : FreshView(oviews, k)
        /\ oviews' = BindView(oviews, r, FALSE, s)
        /\ lastRC' = [op |-> "from_unshared_ptr_ref", arg |-> s,
                      ret |-> BoundView(oviews, r)]
        /\ assertFailed' = (assertFailed \/ ~r.ok)
        /\ UNCHANGED <<varsH, ty, heap, pslot, rch, hviews>>

\* Foreign code stores a pointer in the slot.
WritePSlot(s, p) ==
    /\ pslot' = [pslot EXCEPT ![s] = p]
    /\ lastRC' = [op |-> "slot_write", s |-> s, p |-> p]
    /\ UNCHANGED <<varsH, ty, heap, rch, hviews, oviews, assertFailed>>

\* Ownership of the pointee: acquisition, duplication, consumption, scope exit.
NextRC ==
    \/ \E p \in Ptrs : FromPtr(p)
    \/ \E p \in Ptrs : FromUnsharedPtr(p)
    \/ \E a \in Addr : FromRef(a)
    \/ \E w \in RCIds : Clone(w)
    \/ \E w \in RCIds : FromRCHandle(w)
    \/ \E w \in RCIds : IntoPtr(w)
    \/ \E w \in RCIds : DropRC(w)
    \/ \E w \in RCIds, n \in Numbers : WriteRC(w, n)

\* Aliasing: the wrappers and views made from a reference or pointer to a
\* record, and the writes through them and through the record's owner.
NextA ==
    \/ \E p \in Ptrs : FromPtr(p)
    \/ \E a \in Addr : FromRef(a)
    \/ \E a \in Addr : HandleFromRefMut(a)
    \/ \E w \in RCIds, n \in Numbers : WriteRC(w, n)
    \/ \E k \in ViewIds, n \in Numbers : WriteView(k, n)
    \/ \E a \in Addr, n \in Numbers : OwnerWrite(a, n)

\* The pointer slot seen as an Option<RCHandle<T>>.
NextV ==
    \/ \E s \in PSlots : FromUnsharedPtrRef(s)
    \/ \E s \in PSlots, p \in Ptrs : WritePSlot(s, p)
    \/ \E p \in Ptrs : FromPtr(p)

\* Every call of transmute_ref / transmute_ref_mut, and the pointer casts.
NextL ==
    \/ \E a \in Addr : HandleFromRef(a)
    \/ \E a \in Addr : HandleFromRefMut(a)
    \/ \E p \in Ptrs, m \in BOOLEAN : HandleFromPtr(p, m)
    \/ \E s \in PSlots : FromUnsharedPtrRef(s)

\* ========================================================== specifications
\* The Handle<T> variables when only the pointer side runs.
IdleH ==
    /\ zeroValid = TRUE
    /\ handles = [h \in HandleIds |-> NoHandle]
    /\ slots = [s \in SlotIds |-> [st |-> "live", val |-> Thing(s, 0)]]
    /\ drops = [i \in 0..NumVals |-> 0]
    /\ lastH = [op |-> "init"]

InitHandle == InitH /\ InitPtr /\ ty = ThingLayout
InitRC     == IdleH /\ InitPtr /\ ty = ThingLayout
InitL      == IdleH /\ InitPtr /\ ty \in Layouts

SpecH  == InitHandle /\ [][NextH]_vars
SpecRC == InitRC /\ [][NextRC]_vars
SpecA  == InitRC /\ [][NextA]_vars
SpecV  == InitRC /\ [][NextV]_vars
SpecL  == InitL /\ [][NextL]_vars

\* ================================================================== claims

\* Where the T value with ghost identity i is owned.
HoldersH(i) == {h \in HandleIds : handles[h].st = "live" /\ handles[h].val.id = i}
HoldersS(i) == {s \in SlotIds : slots[s].st = "live" /\ slots[s].val.id = i}

\* ---- C1 (SpecH).  Every T value has one owner until its teardown runs, and
\* that runs once; a wrapper that goes out of scope runs the teardown of its
\* value exactly once, a wrapper consumed by into_instance runs none at all
\* and is forgotten; teardown never runs on the zeroed placeholder.
C1_TeardownExactlyOnce ==
    /\ \A i \in ValIds :
         Cardinality(HoldersH(i)) + Cardinality(HoldersS(i)) + drops[i] = 1
    /\ drops[0] = 0
    /\ \A h \in HandleIds :
         /\ (handles[h].st = "dropped" /\ ~handles[h].consumed)
               => (handles[h].shell = 1 /\ drops[handles[h].val.id] = 1)
         /\ handles[h].consumed
               => (handles[h].shell = 0 /\ handles[h].st = "forgotten")

\* Auxiliary: C1 for a T whose all-zero bit pattern is valid.  It holds, which
\* locates the failure of C1 in the evaluation of mem::zeroed.
TeardownExactlyOnceIfZeroValid == zeroValid => C1_TeardownExactlyOnce

\* ---- C2 (SpecH).  Handle::from_instance(v).into_instance() returns a value
\* equal to v, and T's teardown does not run between the wrap and the unwrap.
C2_RoundTrip ==
    [][ /\ lastH'.op = "from_instance"
           => /\ handles'[lastH'.h].val = slots[lastH'.s].val
              /\ drops' = drops
        /\ (lastH'.op = "into_instance" /\ lastH'.roundtrip)
           => /\ slots'[lastH'.s] = [st |-> "live", val |-> handles[lastH'.h].val]
              /\ drops' = drops
              /\ handles'[lastH'.h].shell = 0
      ]_vars

\* Auxiliary: C2 for a T whose all-zero bit pattern is valid.
RoundTripIfZeroValid ==
    [][ zeroValid =>
        /\ lastH'.op = "from_instance"
           => /\ handles'[lastH'.h].val = slots[lastH'.s].val
              /\ drops' = drops
        /\ (lastH'.op = "into_instance" /\ lastH'.roundtrip)
           => /\ slots'[lastH'.s] = [st |-> "live", val |-> handles[lastH'.h].val]
              /\ drops' = drops
              /\ handles'[lastH'.h].shell = 0
      ]_vars

\* ---- C3 (SpecH).  After W.replace(&mut slot), with W owning A and the slot
\* holding B: W owns B, the slot holds A, and no teardown ran in the operation.
C3_ReplaceExchanges ==
    [][ lastH'.op = "replace"
        => /\ handles'[lastH'.h].st = "live"
           /\ handles'[lastH'.h].val = slots[lastH'.s].val
           /\ slots'[lastH'.s] = [st |-> "live", val |-> handles[lastH'.h].val]
           /\ handles'[lastH'.h].shell = 0
           /\ drops' = drops
      ]_vars

\* A replace has just exchanged two values that differ in identity and content.
C3_Witness ==
    /\ lastH.op = "replace"
    /\ handles[lastH.h].val.id # slots[lastH.s].val.id
    /\ handles[lastH.h].val.number # slots[lastH.s].val.number

\* ---- C4 (SpecRC).  from_ptr and from_unshared_ptr return None for a null
\* pointer and, for a non-null pointer p, a wrapper whose as_ptr is p; no
\* RCHandle holds a null pointer.
C4_NullYieldsNone ==
    /\ lastRC.op \in {"from_ptr", "from_unshared_ptr"}
         => IF lastRC.arg = 0
            THEN lastRC.ret = None
            ELSE /\ lastRC.ret.some
                 /\ rch[lastRC.ret.v].st = "live"
                 /\ RCHandle_as_ptr(rch[lastRC.ret.v]) = lastRC.arg
    /\ \A w \in RCIds : rch[w].st # "none" => RCHandle_as_ptr(rch[w]) # 0

\* from_unshared_ptr has just returned None for null while a wrapper made
\* from a non-null pointer is live.
C4_Witness ==
    /\ lastRC.op = "from_unshared_ptr"
    /\ lastRC.arg = 0
    /\ \E w \in RCIds : rch[w].st = "live"

\* ---- C5 (SpecRC).  clone leaves the original wrapper and the pointee as they
\* were and the copy holds the same pointer; into_ptr returns the pointer the
\* consumed wrapper held and leaves every other wrapper's pointer unchanged
\* and its pointee unreleased and unmodified.
C5_CloneThenConsume ==
    [][ /\ lastRC'.op = "clone"
           => /\ rch'[lastRC'.w] = rch[lastRC'.w]
              /\ rch'[lastRC'.ret].ptr = rch[lastRC'.w].ptr
              /\ heap' = heap
        /\ lastRC'.op = "into_ptr"
           => /\ lastRC'.ret = rch[lastRC'.w].ptr
              /\ \A o \in RCIds \ {lastRC'.w} : rch'[o] = rch[o]
              /\ heap' = heap
              /\ \A o \in RCIds : rch'[o].st = "live" => heap'[rch'[o].ptr].released = 0
      ]_vars

\* A wrapper has just been consumed while another wrapper of the same pointee
\* is still live.
C5_Witness ==
    /\ lastRC.op = "into_ptr"
    /\ \E o \in RCIds :
         /\ o # lastRC.w
         /\ rch[o].st = "live"
         /\ rch[o].ptr = lastRC.ret

\* ---- C6 (SpecA).  A wrapper built from a reference or pointer to a record r
\* (RCHandle::from_ref, RCHandle::from_ptr, Handle::from_ref_mut) reads what r
\* holds, and a write through it is at once what the wrapper and r read.
C6_Aliasing ==
    /\ \A w \in RCIds :
         rch[w].st = "live"
             => RCHandle_as_ref(rch[w], heap) = heap[rch[w].origin].number
    /\ \A k \in ViewIds :
         hviews[k].st = "live"
             => HandleView_read(hviews[k], heap) = heap[hviews[k].origin].number
    /\ lastRC.op = "rc_write"
         => /\ RCHandle_as_ref(rch[lastRC.w], heap) = lastRC.n
            /\ heap[rch[lastRC.w].origin].number = lastRC.n
    /\ lastRC.op = "view_write"
         => /\ HandleView_read(hviews[lastRC.k], heap) = lastRC.n
            /\ heap[hviews[lastRC.k].origin].number = lastRC.n

\* A non-zero number has just been written through an RCHandle made from a
\* record that a &mut Handle view aliases too.
C6_Witness ==
    /\ lastRC.op = "rc_write"
    /\ lastRC.n # 0
    /\ \E k \in ViewIds :
         /\ hviews[k].st = "live"
         /\ hviews[k].mut
         /\ hviews[k].origin = rch[lastRC.w].origin

\* The wrappers ever made of the pointee at address a.
Owners(a) == {w \in RCIds : rch[w].st # "none" /\ rch[w].ptr = a}

\* ---- C7 (SpecRC).  The pointee is released when its wrapper goes out of scope
\* unless the wrapper was consumed by into_ptr: no pointee is released twice,
\* and a pointee whose only wrapper went out of scope unconsumed is released.
C7_ReleaseOnScopeExit ==
    \A a \in Addr :
        /\ heap[a].released <= 1
        /\ (Cardinality(Owners(a)) = 1 /\ \A w \in Owners(a) : rch[w].st = "dropped")
              => heap[a].released = 1

\* ---- C8 (SpecL).  Handle<T> has the size and alignment of T, and
\* Option<RCHandle<T>> the size of *mut T, so the size assertion of
\* transmute_ref / transmute_ref_mut never fires.
C8_SizesAgree ==
    /\ ~assertFailed
    /\ HandleLayout(ty).size = ty.size
    /\ HandleLayout(ty).align = ty.align
    /\ OptionLayout(RCHandleLayout).size = RawPtrLayout.size
    /\ lastRC.op \in {"handle_from_ref", "handle_from_ref_mut", "from_unshared_ptr_ref"}
         => lastRC.ret.some

\* Handle::from_ref_mut has returned a view of a T that is larger than its
\* alignment, after from_unshared_ptr_ref has made a view too.
C8_Witness ==
    /\ lastRC.op = "handle_from_ref_mut"
    /\ lastRC.ret.some
    /\ ty.size > ty.align
    /\ ty.align > 1
    /\ \E k \in ViewIds : oviews[k].st = "live"

C10_SlotView ==
    \A k \in ViewIds :
        oviews[k].st = "live"
            => LET s == oviews[k].origin
                   v == OptionView_read(oviews[k], pslot)
               IN  /\ oviews[k].at = s
                   /\ pslot[s] = 0 => v = None
                   /\ pslot[s] # 0 => (v.some /\ RCHandle_as_ptr(v.v) = pslot[s])
                   /\ v = RCHandle_from_ptr(pslot[s], heap).ret

\* A slot has been written after a view of it was made: the two slots hold a
\* pointer and null, and the view is of the one holding the pointer.
C10_Witness ==
    /\ lastRC.op = "slot_write"
    /\ \E k \in ViewIds :
         /\ oviews[k].st = "live"
         /\ pslot[oviews[k].origin] # 0
         /\ \E t \in PSlots : pslot[t] = 0

====
